---- MODULE Spec2Model ----
(***************************************************************************)
(* User-account service of backend/users: the User table (models.py) and   *)
(* the GraphQL operations register, login, updateProfile and me            *)
(* (schema.py).                                                            *)
(*                                                                         *)
(* Python strings are sequences of one-character strings, so that          *)
(* email.split('@')[0] and the manager's email normalisation are computed  *)
(* and not assumed.  None is a value that is none of the strings used.     *)
(*                                                                         *)
(* The store is the framework's default relational backend: exact lookups  *)
(* compare strings as they are (case matters), the username column is      *)
(* unique (AbstractUser), the email column is not (models.py adds no       *)
(* constraint), and a primary key is consumed only by a successful insert. *)
(***************************************************************************)
EXTENDS Integers, Sequences, FiniteSets, TLC

VARIABLES
    users,       \* the rows of the users table (a set of User records)
    nextId,      \* the next value of the table's auto-increment primary key
    response,    \* what the latest completed request returned or raised
    registered,  \* history: the <<email, password>> inputs of successful registers
    inflight     \* interleaved requests between their read and their write

vars == <<users, nextId, response, registered, inflight>>

-----------------------------------------------------------------------------
(* Values *)

None == <<"None">>

a_x == <<"a", "@", "x">>
a_X == <<"a", "@", "X">>
a_y == <<"a", "@", "y">>

Emails == {a_x, a_X, a_y}
UsernameArgs == {None, a_x}
Passwords == {<<"p">>, <<"q">>}
FirstNames == {<<"A", "l">>}
LastNames == {None}

ProfileKeys == {"primary_contact", "secondary_contact", "avatar_url"}
Omitted == <<"Omitted">>
ProfileValue(k) ==
    CASE k = "primary_contact" -> <<"+", "1">>
      [] k = "secondary_contact" -> <<"+", "2">>
      [] k = "avatar_url" -> <<"u", "1">>
\* the values a key is supplied with: avatar_url has a second one, so that
\* overwriting a value with another is among the cases
ProfileValues(k) ==
    {ProfileValue(k)} \cup (IF k = "avatar_url" THEN {<<"u", "2">>} ELSE {})
\* The keyword arguments of one updateProfile call: every key is left out,
\* passed as null, or passed with a value.
KwargsSet ==
    {kw \in [ProfileKeys -> {Omitted, None} \cup
                              UNION {ProfileValues(k) : k \in ProfileKeys}] :
        \A k \in ProfileKeys : kw[k] \in {Omitted, None} \cup ProfileValues(k)}

\* The updateProfile arguments and the register inputs of the specifications
\* that explore the account operations (Spec) and the profile operations
\* (ProfileSpec).
AccountKwargs ==
    {[k \in ProfileKeys |-> IF k = "avatar_url" THEN ProfileValue(k) ELSE Omitted],
     [k \in ProfileKeys |-> IF k = "avatar_url" THEN None ELSE ProfileValue(k)]}
ProfileEmails == {a_x, a_y}
ProfilePasswords == {<<"p">>}

-----------------------------------------------------------------------------
(* Python and Django helpers used by the handlers *)

\* `v or d`
Or(v, d) == IF v = None \/ v = <<>> THEN d ELSE v

RECURSIVE Find(_, _, _)
\* index of the first c in s at or after i, 0 when there is none
Find(s, c, i) ==
    IF i > Len(s) THEN 0
    ELSE IF s[i] = c THEN i ELSE Find(s, c, i + 1)

RECURSIVE RFind(_, _, _)
\* index of the last c in s at or before i, 0 when there is none
RFind(s, c, i) ==
    IF i < 1 THEN 0
    ELSE IF s[i] = c THEN i ELSE RFind(s, c, i - 1)

\* email.split('@')[0]
SplitFirst(s) ==
    LET i == Find(s, "@", 1)
    IN  IF i = 0 THEN s ELSE SubSeq(s, 1, i - 1)

RECURSIVE Strip(_)
Strip(s) ==
    IF s = <<>> THEN s
    ELSE IF Head(s) = " " THEN Strip(Tail(s))
    ELSE IF s[Len(s)] = " " THEN Strip(SubSeq(s, 1, Len(s) - 1))
    ELSE s

LowerChar(c) == IF c = "X" THEN "x" ELSE c
Lower(s) == [i \in 1..Len(s) |-> LowerChar(s[i])]

\* BaseUserManager.normalize_email: lowercase the domain part
NormalizeEmail(email) ==
    LET e == Or(email, <<>>)
        t == Strip(e)
        i == RFind(t, "@", Len(t))
    IN  IF i = 0 THEN e
        ELSE SubSeq(t, 1, i - 1) \o <<"@">> \o Lower(SubSeq(t, i + 1, Len(t)))

\* make_password / check_password: the stored value is a hash of the plaintext
MakePassword(raw) == <<"pbkdf2_sha256">> \o raw
CheckPassword(raw, encoded) == encoded = MakePassword(raw)

\* RefreshToken.for_user(user), str(refresh), str(refresh.access_token)
RefreshToken(user) == <<"refresh", user.id>>
AccessToken(user) == <<"access", user.id>>

-----------------------------------------------------------------------------
(* The store *)

\* None where a user object is expected; request.user of an unauthenticated request
NoUser == [id |-> 0]
AnonymousUser == [is_anonymous |-> TRUE]

\* FilterEmail with a fault: the email is looked up in the username column
FilterEmail_ByUsername(store, email) == {u \in store : u.username = email}

\* UserModel.objects.filter(email=email)
FilterEmail(store, email) == {u \in store : u.email = email}

\* .first(): the row with the smallest primary key
First(rows) ==
    IF rows = {} THEN NoUser
    ELSE CHOOSE u \in rows : \A v \in rows : u.id <= v.id

NewUser(id, username, email, password, first_name, last_name) ==
    [id |-> id,
     username |-> username,
     email |-> NormalizeEmail(email),
     password |-> MakePassword(password),
     first_name |-> first_name,
     last_name |-> last_name,
     is_active |-> TRUE,
     avatar_url |-> None,
     primary_contact |-> None,
     secondary_contact |-> None,
     profile_json |-> <<>>]

\* UserModel.objects.create_user(...): ValueError for an empty username, the
\* INSERT fails on the username column's unique constraint (AbstractUser);
\* the email column has none.
CreateUser(store, id, username, email, password, first_name, last_name) ==
    IF username = None \/ username = <<>>
    THEN [status |-> "ValueError", user |-> NoUser, users |-> store]
    ELSE IF \E u \in store : u.username = username
    THEN [status |-> "IntegrityError", user |-> NoUser, users |-> store]
    ELSE LET user == NewUser(id, username, email, password, first_name, last_name)
         IN  [status |-> "ok", user |-> user, users |-> store \cup {user}]

\* Save with a fault: a row is inserted instead of the row with the key updated
Save_Insert(store, user) == store \cup {user}

\* user.save(): UPDATE of every column of the row with the instance's key
Save(store, user) == {u \in store : u.id /= user.id} \cup {user}

-----------------------------------------------------------------------------
(* The handlers, as functions of the store they read *)

Raise(store, id, message) ==
    [status |-> message, user |-> NoUser, access_token |-> None,
     refresh_token |-> None, users |-> store, nextId |-> id]

\* Register.mutate, lines 53-60: create the user, save it, issue the tokens
RegisterCreate(store, id, email, password, username, first_name, last_name) ==
    LET c == CreateUser(store, id, Or(username, SplitFirst(email)), email,
                        password, Or(first_name, <<>>), Or(last_name, <<>>))
    IN  IF c.status /= "ok" THEN Raise(store, id, c.status)
        ELSE [status |-> "ok", user |-> c.user,
              access_token |-> AccessToken(c.user),
              refresh_token |-> RefreshToken(c.user),
              users |-> Save(c.users, c.user), nextId |-> id + 1]

\* Register.mutate
RegisterMutate(store, id, email, password, username, first_name, last_name) ==
    IF FilterEmail(store, email) /= {}
    THEN Raise(store, id, "Email already in use")
    ELSE RegisterCreate(store, id, email, password, username, first_name, last_name)

\* django.contrib.auth.authenticate(username=..., password=...) with ModelBackend
Authenticate(store, username, password) ==
    LET rows == {u \in store : u.username = username}
    IN  IF rows = {} THEN NoUser
        ELSE LET u == CHOOSE u \in rows : TRUE
             IN  IF CheckPassword(password, u.password) /\ u.is_active
                 THEN u ELSE NoUser

\* Login.mutate
LoginMutate(store, id, email, password) ==
    LET byUsername == Authenticate(store, email, password)
        obj == First(FilterEmail(store, email))
        user == IF byUsername /= NoUser THEN byUsername
                ELSE IF obj /= NoUser /\ CheckPassword(password, obj.password)
                THEN obj ELSE NoUser
    IN  IF user = NoUser THEN Raise(store, id, "Invalid credentials")
        ELSE [status |-> "ok", user |-> user,
              access_token |-> AccessToken(user),
              refresh_token |-> RefreshToken(user),
              users |-> store, nextId |-> id]

\* SetAttrs with a fault: null values are assigned too
SetAttrs_Nulls(user, kwargs) ==
    [f \in DOMAIN user |->
        IF f \in DOMAIN kwargs /\ kwargs[f] /= Omitted
        THEN kwargs[f] ELSE user[f]]

\* the loop of UpdateProfile.mutate: setattr for every supplied non-null value
\* whose key is an attribute of the user
SetAttrs(user, kwargs) ==
    [f \in DOMAIN user |->
        IF f \in DOMAIN kwargs /\ kwargs[f] /= Omitted /\ kwargs[f] /= None
        THEN kwargs[f] ELSE user[f]]

\* UpdateProfileMutate with a fault: an anonymous caller gets a null user
\* instead of the error
UpdateProfileMutate_NoRaise(store, id, user, kwargs) ==
    IF user = AnonymousUser
    THEN [status |-> "ok", user |-> NoUser, access_token |-> None,
          refresh_token |-> None, users |-> store, nextId |-> id]
    ELSE LET updated == SetAttrs(user, kwargs)
         IN  [status |-> "ok", user |-> updated, access_token |-> None,
              refresh_token |-> None, users |-> Save(store, updated),
              nextId |-> id]

\* UpdateProfile.mutate; user is info.context.user as the request loaded it
UpdateProfileMutate(store, id, user, kwargs) ==
    IF user = AnonymousUser THEN Raise(store, id, "Authentication required")
    ELSE LET updated == SetAttrs(user, kwargs)
         IN  [status |-> "ok", user |-> updated, access_token |-> None,
              refresh_token |-> None, users |-> Save(store, updated),
              nextId |-> id]

\* ResolveMe with a fault: it raises for an anonymous caller, as
\* updateProfile does
ResolveMe_Raises(store, id, user) ==
    IF user = AnonymousUser THEN Raise(store, id, "Authentication required")
    ELSE [status |-> "ok", user |-> user, access_token |-> None,
          refresh_token |-> None, users |-> store, nextId |-> id]

\* Query.resolve_me
ResolveMe(store, id, user) ==
    [status |-> "ok", user |-> IF user = AnonymousUser THEN NoUser ELSE user,
     access_token |-> None, refresh_token |-> None, users |-> store,
     nextId |-> id]

-----------------------------------------------------------------------------
(* Requests served one at a time *)

\* request.user: anonymous, or the row of an existing user
ContextUsers(store) == {AnonymousUser} \cup store

Response(op, r) ==
    [op |-> op, status |-> r.status, user |-> r.user.id,
     access_token |-> r.access_token, refresh_token |-> r.refresh_token]

Init ==
    /\ users = {}
    /\ nextId = 1
    /\ response = [op |-> "none", status |-> "ok", user |-> 0,
                   access_token |-> None, refresh_token |-> None]
    /\ registered = {}
    /\ inflight = <<>>

Register(email, password, username, first_name, last_name) ==
    LET r == RegisterMutate(users, nextId, email, password, username,
                            first_name, last_name)
    IN  /\ users' = r.users
        /\ nextId' = r.nextId
        /\ response' = Response("register", r)
        /\ registered' = IF r.status = "ok"
                          THEN registered \cup {<<email, password>>}
                          ELSE registered
        /\ UNCHANGED inflight

Login(email, password) ==
    LET r == LoginMutate(users, nextId, email, password)
    IN  /\ users' = r.users
        /\ nextId' = r.nextId
        /\ response' = Response("login", r)
        /\ UNCHANGED <<registered, inflight>>

UpdateProfile(user, kwargs) ==
    LET r == UpdateProfileMutate(users, nextId, user, kwargs)
    IN  /\ response' = Response("updateProfile", r)
        /\ nextId' = r.nextId
        /\ users' = r.users
        /\ UNCHANGED <<registered, inflight>>

Me(user) ==
    LET r == ResolveMe(users, nextId, user)
    IN  /\ users' = r.users
        /\ nextId' = r.nextId
        /\ response' = Response("me", r)
        /\ UNCHANGED <<registered, inflight>>

Next ==
    \/ \E e \in Emails, p \in Passwords, u \in UsernameArgs,
          f \in FirstNames, l \in LastNames : Register(e, p, u, f, l)
    \/ \E e \in Emails, p \in Passwords : Login(e, p)
    \/ \E c \in ContextUsers(users), k \in AccountKwargs : UpdateProfile(c, k)
    \/ \E c \in ContextUsers(users) : Me(c)

Spec == Init /\ [][Next]_vars

\* The same requests with every combination of updateProfile arguments, and
\* the registrations that lead to two users.
ProfileNext ==
    \/ \E e \in ProfileEmails, p \in ProfilePasswords, u \in UsernameArgs,
          f \in FirstNames, l \in LastNames : Register(e, p, u, f, l)
    \/ \E e \in ProfileEmails, p \in ProfilePasswords : Login(e, p)
    \/ \E c \in ContextUsers(users), k \in KwargsSet : UpdateProfile(c, k)
    \/ \E c \in ContextUsers(users) : Me(c)

ProfileSpec == Init /\ [][ProfileNext]_vars

-----------------------------------------------------------------------------
(* Requests served concurrently.  Every request is handled by its own      *)
(* worker; the store is shared.  A register request reads the store in its *)
(* existence check (line 50) and writes it in create_user (line 53); an    *)
(* updateProfile request reads the caller's row when the request's user is *)
(* loaded (line 24) and writes the whole row in save() (line 31).  Other   *)
(* requests may run between the read and the write.                        *)

MaxInflight == 2
Slots == 1..MaxInflight
Idle == [pc |-> "idle"]

ConcEmails == {a_x}
ConcPasswords == {<<"p">>}
ConcKwargs == {[k \in ProfileKeys |-> IF k = j THEN ProfileValue(k) ELSE Omitted] :
                  j \in {"avatar_url", "primary_contact"}}

ConcInit ==
    /\ users = {}
    /\ nextId = 1
    /\ response = [op |-> "none", status |-> "ok", user |-> 0,
                   access_token |-> None, refresh_token |-> None]
    /\ registered = {}
    /\ inflight = [s \in Slots |-> Idle]

\* Register.mutate up to and including the existence check
BeginRegister(s, email, password, username, first_name, last_name) ==
    /\ inflight[s].pc = "idle"
    /\ IF FilterEmail(users, email) /= {}
       THEN /\ response' = Response("register",
                                Raise(users, nextId, "Email already in use"))
            /\ UNCHANGED <<users, nextId, registered, inflight>>
       ELSE /\ inflight' = [inflight EXCEPT ![s] =
                    [pc |-> "create", email |-> email, password |-> password,
                     username |-> username, first_name |-> first_name,
                     last_name |-> last_name]]
            /\ UNCHANGED <<users, nextId, response, registered>>

\* Register.mutate from create_user on
FinishRegister(s) ==
    /\ inflight[s].pc = "create"
    /\ LET q == inflight[s]
           r == RegisterCreate(users, nextId, q.email, q.password, q.username,
                               q.first_name, q.last_name)
       IN  /\ users' = r.users
           /\ nextId' = r.nextId
           /\ response' = Response("register", r)
           /\ registered' = IF r.status = "ok"
                             THEN registered \cup {<<q.email, q.password>>}
                             ELSE registered
    /\ inflight' = [inflight EXCEPT ![s] = Idle]

\* UpdateProfile.mutate up to the anonymous check: the request holds its own
\* copy of the caller's row
BeginUpdate(s, user, kwargs) ==
    /\ inflight[s].pc = "idle"
    /\ IF user = AnonymousUser
       THEN /\ response' = Response("updateProfile",
                                UpdateProfileMutate(users, nextId, user, kwargs))
            /\ UNCHANGED <<users, nextId, registered, inflight>>
       ELSE /\ inflight' = [inflight EXCEPT ![s] =
                    [pc |-> "loaded", user |-> user, kwargs |-> kwargs,
                     raced |-> FALSE]]
            /\ UNCHANGED <<users, nextId, response, registered>>

\* UpdateProfile.mutate from the setattr loop on: save() writes the request's
\* copy.  raced records that another request of the same caller saved between
\* this request's load and its save.
FinishUpdate(s) ==
    /\ inflight[s].pc = "loaded"
    /\ LET q == inflight[s]
           r == UpdateProfileMutate(users, nextId, q.user, q.kwargs)
       IN  /\ users' = r.users
           /\ nextId' = r.nextId
           /\ response' = Response("updateProfile", r)
           /\ inflight' = [t \in Slots |->
                 IF t = s THEN [q EXCEPT !.pc = "saved"]
                 ELSE IF inflight[t].pc = "loaded" /\ inflight[t].user.id = q.user.id
                      THEN [inflight[t] EXCEPT !.raced = TRUE]
                      ELSE inflight[t]]
    /\ UNCHANGED registered

\* the response of a saved updateProfile is sent; the worker is free again
Return(s) ==
    /\ inflight[s].pc = "saved"
    /\ inflight' = [inflight EXCEPT ![s] = Idle]
    /\ UNCHANGED <<users, nextId, response, registered>>

ConcNext ==
    \/ \E s \in Slots, e \in ConcEmails, p \in ConcPasswords, u \in UsernameArgs,
          f \in FirstNames, l \in LastNames : BeginRegister(s, e, p, u, f, l)
    \/ \E s \in Slots : FinishRegister(s)
    \/ \E s \in Slots, c \in ContextUsers(users), k \in ConcKwargs :
          BeginUpdate(s, c, k)
    \/ \E s \in Slots : FinishUpdate(s)
    \/ \E s \in Slots : Return(s)
    \/ \E e \in ConcEmails, p \in ConcPasswords : Login(e, p)
    \/ \E c \in ContextUsers(users) : Me(c)

ConcSpec == ConcInit /\ [][ConcNext]_vars

-----------------------------------------------------------------------------
(* Properties *)

Ids(store) == {u.id : u \in store}
Supplied(kwargs) == {k \in DOMAIN kwargs : kwargs[k] /= Omitted /\ kwargs[k] /= None}
IdentityFields == {"id", "username", "email", "password", "first_name",
                   "last_name", "profile_json"}

\* C1: in every reachable state, register with an email no stored user has
\* succeeds: exactly one user is added, its email is the input email, its id
\* is an id no user had, and the response carries that user and both tokens.
C1_RegisterNewEmailSucceeds ==
    [][response'.op = "register" => \A e \in Emails, p \in Passwords, u \in UsernameArgs,
          f \in FirstNames, l \in LastNames :
          (Register(e, p, u, f, l) /\ \A x \in users : x.email /= e) =>
              /\ response'.status = "ok"
              /\ users \subseteq users'
              /\ Cardinality(users' \ users) = 1
              /\ \A n \in users' \ users :
                    /\ n.email = e
                    /\ n.id \notin Ids(users)
                    /\ response'.user = n.id
              /\ response'.access_token /= None
              /\ response'.refresh_token /= None]_vars

\* C2: no two stored users ever have the same email, whatever the
\* interleaving of the requests.
C2_EmailUnique ==
    \A u \in users, v \in users : u.email = v.email => u = v

\* C3: register, served alone, with an email a stored user already has fails
\* with 'Email already in use', issues no tokens and leaves the store as it
\* was, whatever the other arguments.
C3_DuplicateEmailRejected ==
    /\ \A e \in Emails, p \in Passwords, u \in UsernameArgs,
          f \in FirstNames, l \in LastNames :
          (\E x \in users : x.email = e) =>
              LET r == RegisterMutate(users, nextId, e, p, u, f, l)
              IN  /\ r.status = "Email already in use"
                  /\ r.user = NoUser
                  /\ r.access_token = None
                  /\ r.refresh_token = None
                  /\ r.users = users
                  /\ r.nextId = nextId
    /\ (response.op = "register" /\ response.status = "Email already in use") =>
          (response.user = 0 /\ response.access_token = None
              /\ response.refresh_token = None)

C3_Witness ==
    /\ response.op = "register"
    /\ response.status = "Email already in use"
    /\ users /= {}

\* C4: login(email, password) succeeds only when some stored user has that
\* email and that password; when none has, it fails with 'Invalid
\* credentials'.
C4_LoginOnlyByEmail ==
    [][response'.op = "login" => \A e \in Emails, p \in Passwords :
          Login(e, p) =>
              IF \E x \in users : x.email = e /\ CheckPassword(p, x.password)
              THEN response'.status \in {"ok", "Invalid credentials"}
              ELSE response'.status = "Invalid credentials"]_vars

\* C5: once register(e, p) has succeeded, login(e, p) succeeds in every later
\* state and returns a non-empty access token and a non-empty refresh token.
C5_LoginAfterRegister ==
    \A ep \in registered :
        LET r == LoginMutate(users, nextId, ep[1], ep[2])
        IN  /\ r.status = "ok"
            /\ r.access_token /= None /\ r.access_token /= <<>>
            /\ r.refresh_token /= None /\ r.refresh_token /= <<>>

\* C6: updateProfile by an authenticated caller changes only the caller's
\* row, and on it only the fields supplied with a non-null value, each set to
\* the supplied value; every other field of the caller and every other row
\* keep their values.
C6_UpdateProfileFrame ==
    \A c \in users, k \in KwargsSet :
        LET r == UpdateProfileMutate(users, nextId, c, k)
        IN  /\ r.status = "ok"
            /\ r.user \in r.users
            /\ r.user.id = c.id
            /\ users \ {c} \subseteq r.users
            /\ Ids(r.users) = Ids(users)
            /\ Cardinality(r.users) = Cardinality(users)
            /\ \A n \in r.users :
                  n.id = c.id =>
                      /\ DOMAIN n = DOMAIN c
                      /\ \A g \in Supplied(k) : n[g] = k[g]
                      /\ \A g \in ProfileKeys \ Supplied(k) : n[g] = c[g]
                      /\ \A g \in IdentityFields : n[g] = c[g]

C6_Witness ==
    /\ response.op = "updateProfile"
    /\ response.status = "ok"
    /\ Cardinality(users) = 2
    /\ \E u \in users, v \in users :
          /\ u.id = response.user
          /\ u.avatar_url = <<"u", "2">>
          /\ u.primary_contact = None
          /\ v.id /= u.id
          /\ v.avatar_url = <<"u", "1">>
          /\ v.secondary_contact /= None

\* C7: updateProfile by an anonymous caller fails with 'Authentication
\* required' for every combination of arguments and leaves the store as it
\* was.
C7_AnonymousUpdateRejected ==
    /\ \A k \in KwargsSet :
          LET r == UpdateProfileMutate(users, nextId, AnonymousUser, k)
          IN  /\ r.status = "Authentication required"
              /\ r.user = NoUser
              /\ r.users = users
              /\ r.nextId = nextId
    /\ (response.op = "updateProfile" /\ response.user = 0) =>
          response.status = "Authentication required"

C7_Witness ==
    /\ response.op = "updateProfile"
    /\ response.status = "Authentication required"
    /\ \E u \in users : u.avatar_url /= None

\* C8: me never fails and never changes the store; it returns null to an
\* anonymous caller and the caller's own record to an authenticated one.
C8_MeReadsCaller ==
    /\ \A c \in ContextUsers(users) :
          LET r == ResolveMe(users, nextId, c)
          IN  /\ r.status = "ok"
              /\ r.users = users
              /\ r.nextId = nextId
              /\ r.user = (IF c = AnonymousUser THEN NoUser ELSE c)
    /\ response.op = "me" =>
          (response.status = "ok" /\ response.user \in {0} \cup Ids(users))

C8_Witness ==
    /\ response.op = "me"
    /\ response.status = "ok"
    /\ response.user \in Ids(users)
    /\ Cardinality(users) = 2

\* C9: no row is ever deleted, only register adds a row, the id, username,
\* email and password hash of a row never change, and login and me change no
\* row at all.
C9_Lifecycle ==
    [][/\ \A u \in users :
             /\ Cardinality({v \in users' : v.id = u.id}) = 1
             /\ \A v \in users' :
                   v.id = u.id =>
                       /\ v.username = u.username
                       /\ v.email = u.email
                       /\ v.password = u.password
       /\ Ids(users') /= Ids(users) =>
             \E e \in Emails, p \in Passwords, u \in UsernameArgs,
                f \in FirstNames, l \in LastNames : Register(e, p, u, f, l)
       /\ (\E e \in Emails, p \in Passwords : Login(e, p)) => users' = users
       /\ (\E c \in ContextUsers(users) : Me(c)) => users' = users]_vars

C9_Witness ==
    /\ Cardinality(users) = 2
    /\ response.op = "login"
    /\ response.status = "ok"
    /\ \E u \in users : u.avatar_url /= None /\ u.secondary_contact /= None

\* C10: two updateProfile requests of one caller that each loaded the row
\* before the other saved and that supply disjoint fields both take effect:
\* once both have saved, the stored row holds both supplied values.
C10_NoLostUpdate ==
    \A s \in Slots, t \in Slots :
        ( /\ s /= t
          /\ inflight[s].pc = "saved" /\ inflight[t].pc = "saved"
          /\ inflight[s].user.id = inflight[t].user.id
          /\ inflight[s].raced \/ inflight[t].raced
          /\ Supplied(inflight[s].kwargs) \cap Supplied(inflight[t].kwargs) = {} )
        => \A u \in users :
              u.id = inflight[s].user.id =>
                  /\ \A g \in Supplied(inflight[s].kwargs) : u[g] = inflight[s].kwargs[g]
                  /\ \A g \in Supplied(inflight[t].kwargs) : u[g] = inflight[t].kwargs[g]

====
